---- MODULE Spec2Model ----
(***************************************************************************)
(* The tlosrecovery contract (src/src/tlosrecovery.cpp): two multi_index   *)
(* tables, "unstake" and "recover", keyed by account name, and the five    *)
(* actions add, remove, removeme, unstake and recover.                     *)
(*                                                                         *)
(* Every action runs as one transaction: it either commits its table       *)
(* writes and the inline actions it sent, or (require_auth, a duplicate    *)
(* primary key in emplace, or check() failing) it aborts and leaves the    *)
(* tables as they were.  The tables of the system and token contracts      *)
(* (delegated bandwidth, refunds, balances) are outside the contract and   *)
(* change at will between transactions; each action reads them as an       *)
(* input that is fixed for the duration of the transaction (inline actions *)
(* run only after the sending action has returned).  The inline actions    *)
(* are assumed to be accepted by their receivers.                          *)
(***************************************************************************)
EXTENDS Integers, Sequences, FiniteSets, TLC

\* ------------------------------------------------------------------ bounds
NumAccounts == 2            \* accounts other than the contract's own
MaxLen == 2                 \* longest account_names vector passed to add/remove

\* --------------------------------------------------------------- universe
Self == 0                                   \* get_self()
Names == 1..NumAccounts                     \* name values of the other accounts
Callers == {Self} \cup Names                \* who may authorize a transaction
MaxN == NumAccounts + 1                     \* largest n tried (uint8_t n)
Counts == 0..MaxN
end == NumAccounts + 1                      \* the past-the-end iterator

\* Sample rows of eosio's delband table (net_weight, cpu_weight) and sample
\* TLOS balances: the contract only copies these amounts into the actions.
StakeRows == {[net_weight |-> 1, cpu_weight |-> 2], [net_weight |-> 2, cpu_weight |-> 1]}
Balances == {0, 2}

RECURSIVE SeqsUpTo(_, _)
SeqsUpTo(S, n) ==
    IF n = 0 THEN {<<>>}
    ELSE LET shorter == SeqsUpTo(S, n - 1)
         IN  shorter \cup {Append(s, x) : s \in {t \in shorter : Len(t) = n - 1}, x \in S}

NameLists == SeqsUpTo(Names, MaxLen)        \* std::vector<name> arguments
Range(s) == {s[k] : k \in 1..Len(s)}

\* del_bandwidth_table of the accounts in S: a row exists or not
AnyRow == [net_weight |-> 1, cpu_weight |-> 2]
StakedTables(S, rows) == UNION {[D -> rows] : D \in SUBSET S}
\* refunds_table of the accounts in S: the accounts that have a row
RefundTables(S) == SUBSET S
\* eosio.token balances of the accounts in S
BalanceTables(S) == [S -> Balances]

VARIABLES
    unstaking,      \* multi_index "unstake": the set of primary keys
    recovering,     \* multi_index "recover": the set of primary keys
    sent,           \* inline actions sent by the last transaction
    result,         \* which action ran last and how it ended
    added,          \* history: accounts passed to a committed add
    dup,            \* history: some account was passed to add more than once
    immune,         \* history: accounts whose removeme has committed
    uAdmit,         \* history: rows of "unstake" in insertion order
    rAdmit,         \* history: rows of "recover" in insertion order
    waiting,        \* history: accounts add put into "unstake", not yet moved by unstake
    swept,          \* history: accounts recover has erased from "recover"
    blocked,        \* history: accounts seen in both tables, no remove/removeme since
    pending,        \* ledger: accounts whose refund request has not matured
    closed          \* add is not called any more

tables == <<unstaking, recovering>>
history == <<added, dup, immune, uAdmit, rAdmit, waiting, swept, blocked>>
ledger == <<pending, closed>>
vars == <<unstaking, recovering, sent, result, added, dup, immune, uAdmit, rAdmit,
          waiting, swept, blocked, pending, closed>>

\* ------------------------------------------------------ multi_index tables
\* Iteration is in ascending primary key order.
Min(S) == CHOOSE x \in S : \A y \in S : x <= y

Minimum(a, b) == IF a <= b THEN a ELSE b


\* mutant: iteration started from the last row
begin_last(table) == IF table = {} THEN end ELSE CHOOSE x \in table : \A y \in table : y <= x

begin(table) == IF table = {} THEN end ELSE Min(table)

find(table, key) == IF key \in table THEN key ELSE end

\* the iterator following `it` (what erase returns, and operator++)
next(table, it) ==
    LET later == {k \in table : k > it}
    IN  IF later = {} THEN end ELSE Min(later)

emplace(table, key) == table \cup {key}


\* mutant: the row left in the table
erase_kept(table, it) == table

erase(table, it) == table \ {it}

\* ------------------------------------------------------------ transactions
\* The running transaction: the tables as written so far, the inline
\* actions sent so far, the loop counter and whether it has aborted.
Begin ==
    [unstaking |-> unstaking, recovering |-> recovering,
     actions |-> <<>>, i |-> 0, status |-> "ok"]

abort(tx, msg) == [tx EXCEPT !.status = msg]


\* mutant: the authorization check left out
require_auth_skipped(caller, account) == TRUE

require_auth(caller, account) == caller = account


\* mutant: the net and cpu quantities exchanged
undelegatebw_swapped(auth, from, receiver, net, cpu) ==
    [act |-> "undelegatebw", auth |-> auth, from |-> from, to |-> receiver,
     net |-> cpu, cpu |-> net, quantity |-> 0]

undelegatebw(auth, from, receiver, net, cpu) ==
    [act |-> "undelegatebw", auth |-> auth, from |-> from, to |-> receiver,
     net |-> net, cpu |-> cpu, quantity |-> 0]

refund(auth, owner) ==
    [act |-> "refund", auth |-> auth, from |-> owner, to |-> owner,
     net |-> 0, cpu |-> 0, quantity |-> 0]


\* mutant: one unit of the balance left behind
transfer_short(auth, from, to, quantity) ==
    [act |-> "transfer", auth |-> auth, from |-> from, to |-> to,
     net |-> 0, cpu |-> 0, quantity |-> quantity - 1]


\* mutant: the sender and the recipient arguments mixed up
transfer_to_owner(auth, from, to, quantity) ==
    [act |-> "transfer", auth |-> auth, from |-> from, to |-> from,
     net |-> 0, cpu |-> 0, quantity |-> quantity]

transfer(auth, from, to, quantity) ==
    [act |-> "transfer", auth |-> auth, from |-> from, to |-> to,
     net |-> 0, cpu |-> 0, quantity |-> quantity]


\* mutant: a row that is already there silently kept
emplace_unstaking_upsert(tx, account_name) ==
    [tx EXCEPT !.unstaking = emplace(@, account_name)]

\* unstaking.emplace / recovering.emplace: a duplicate primary key aborts
emplace_unstaking(tx, account_name) ==
    IF find(tx.unstaking, account_name) # end
    THEN abort(tx, "duplicate_key")
    ELSE [tx EXCEPT !.unstaking = emplace(@, account_name)]


\* mutant: a row that is already there silently kept
emplace_recovering_upsert(tx, account_name) ==
    [tx EXCEPT !.recovering = emplace(@, account_name)]

emplace_recovering(tx, account_name) ==
    IF find(tx.recovering, account_name) # end
    THEN abort(tx, "duplicate_key")
    ELSE [tx EXCEPT !.recovering = emplace(@, account_name)]

\* ---------------------------------------------------------------- add
has_row(table, account_name) == account_name \in DOMAIN table


\* mutant: the stake test inverted
add_internal_inverted(tx, account_name, staked) ==
    IF has_row(staked, account_name)
    THEN emplace_recovering(tx, account_name)
    ELSE emplace_unstaking(tx, account_name)


\* mutant: every account put into "recover", staked or not
add_internal_always_recover(tx, account_name, staked) ==
    emplace_recovering(tx, account_name)

add_internal(tx, account_name, staked) ==
    IF has_row(staked, account_name)
    THEN emplace_unstaking(tx, account_name)
    ELSE emplace_recovering(tx, account_name)

RECURSIVE add_loop(_, _, _, _)
add_loop(tx, account_names, k, staked) ==
    IF tx.status # "ok" \/ k > Len(account_names) THEN tx
    ELSE add_loop(add_internal(tx, account_names[k], staked), account_names, k + 1, staked)

add(caller, account_names, staked) ==
    IF ~require_auth(caller, Self) THEN abort(Begin, "missing_auth")
    ELSE add_loop(Begin, account_names, 1, staked)


\* mutant: the recover table looked at only when the account was not in unstake
remove_internal_else(tx, account_name) ==
    IF find(tx.unstaking, account_name) # end
    THEN [tx EXCEPT !.unstaking = erase(@, account_name)]
    ELSE IF find(tx.recovering, account_name) # end
         THEN [tx EXCEPT !.recovering = erase(@, account_name)]
         ELSE tx

\* ---------------------------------------------------------------- remove
remove_internal(tx, account_name) ==
    LET t1 == IF find(tx.unstaking, account_name) # end
              THEN [tx EXCEPT !.unstaking = erase(@, account_name)]
              ELSE tx
    IN  IF find(t1.recovering, account_name) # end
        THEN [t1 EXCEPT !.recovering = erase(@, account_name)]
        ELSE t1

RECURSIVE remove_loop(_, _, _)
remove_loop(tx, account_names, k) ==
    IF k > Len(account_names) THEN tx
    ELSE remove_loop(remove_internal(tx, account_names[k]), account_names, k + 1)


\* mutant: only the first listed account removed
remove_first_only(caller, account_names) ==
    IF ~require_auth(caller, Self) THEN abort(Begin, "missing_auth")
    ELSE remove_loop(Begin, SubSeq(account_names, 1, Minimum(1, Len(account_names))), 1)

remove(caller, account_names) ==
    IF ~require_auth(caller, Self) THEN abort(Begin, "missing_auth")
    ELSE remove_loop(Begin, account_names, 1)

removeme(caller, account_name) ==
    IF ~require_auth(caller, account_name) THEN abort(Begin, "missing_auth")
    ELSE remove_internal(Begin, account_name)


\* mutant: the batch bound off by one
unstake_continues_one_more(i, n, it) == i <= n /\ it # end

\* ---------------------------------------------------------------- unstake
\* the for-loop condition: i < n && unstaking_iterator != unstaking.end()
unstake_continues(i, n, it) == i < n /\ it # end


\* mutant: the row copied to "recover" without being erased from "unstake"
unstake_body_keeps_row(tx, it, staked) ==
    LET t1 == IF has_row(staked, it)
              THEN [tx EXCEPT !.actions = Append(@,
                        undelegatebw(it, it, it, staked[it].net_weight, staked[it].cpu_weight))]
              ELSE tx
        t2 == emplace_recovering(t1, it)
    IN  [tx |-> t2, it |-> next(t2.unstaking, it)]

\* One pass of the loop body for the row under the iterator: the
\* transaction so far and the iterator to go on with (what erase returns).
unstake_body(tx, it, staked) ==
    LET t1 == IF has_row(staked, it)
              THEN [tx EXCEPT !.actions = Append(@,
                        undelegatebw(it, it, it, staked[it].net_weight, staked[it].cpu_weight))]
              ELSE tx
        t2 == emplace_recovering(t1, it)
    IN  IF t2.status # "ok" THEN [tx |-> t2, it |-> it]
        ELSE [tx |-> [t2 EXCEPT !.unstaking = erase(@, it)], it |-> next(t2.unstaking, it)]

RECURSIVE unstake_loop(_, _, _, _)
unstake_loop(tx, n, it, staked) ==
    IF tx.status # "ok" \/ ~unstake_continues(tx.i, n, it) THEN tx
    ELSE LET b == unstake_body(tx, it, staked)
         IN  unstake_loop([b.tx EXCEPT !.i = @ + 1], n, b.it, staked)


\* mutant: unstake reserved to the contract itself
unstake_operator_only(caller, n, staked) ==
    IF ~require_auth(caller, Self) THEN abort(Begin, "missing_auth")
    ELSE LET tx == unstake_loop(Begin, n, begin(unstaking), staked)
         IN  IF tx.status # "ok" THEN tx
             ELSE IF tx.i > 0 THEN tx
             ELSE abort(tx, "No accounts to unstake")

\* mutant: the final check(i > 0) left out
unstake_unchecked(caller, n, staked) ==
    unstake_loop(Begin, n, begin(unstaking), staked)

unstake(caller, n, staked) ==
    LET tx == unstake_loop(Begin, n, begin(unstaking), staked)
    IN  IF tx.status # "ok" THEN tx
        ELSE IF tx.i > 0 THEN tx
        ELSE abort(tx, "No accounts to unstake")


\* mutant: the batch bound off by one
recover_continues_one_more(i, n, it) == i <= n /\ it # end

\* ---------------------------------------------------------------- recover
\* the for-loop condition: i < n && recovering_iterator != recovering.end()
recover_continues(i, n, it) == i < n /\ it # end


\* mutant: the iterator not advanced past a row with a pending refund
recover_body_stuck(tx, it, refunding, balance) ==
    IF it \in refunding
    THEN [tx |-> [tx EXCEPT !.actions = Append(@, refund(it, it))], it |-> it]
    ELSE LET t1 == IF balance[it] > 0
                   THEN [tx EXCEPT !.actions = Append(@, transfer(it, it, Self, balance[it]))]
                   ELSE tx
         IN  [tx |-> [t1 EXCEPT !.recovering = erase(@, it)],
              it |-> next(t1.recovering, it)]

\* One pass of the loop body: the transaction so far and the iterator to go
\* on with (recovering_iterator++ after a refund, else what erase returns).
recover_body(tx, it, refunding, balance) ==
    IF it \in refunding
    THEN [tx |-> [tx EXCEPT !.actions = Append(@, refund(it, it))],
          it |-> next(tx.recovering, it)]
    ELSE LET t1 == IF balance[it] > 0
                   THEN [tx EXCEPT !.actions = Append(@, transfer(it, it, Self, balance[it]))]
                   ELSE tx
         IN  [tx |-> [t1 EXCEPT !.recovering = erase(@, it)],
              it |-> next(t1.recovering, it)]

RECURSIVE recover_loop(_, _, _, _, _)
recover_loop(tx, n, it, refunding, balance) ==
    IF ~recover_continues(tx.i, n, it) THEN tx
    ELSE LET b == recover_body(tx, it, refunding, balance)
         IN  recover_loop([b.tx EXCEPT !.i = @ + 1], n, b.it, refunding, balance)


\* mutant: only erased rows counted as processed
recover_counts_erased(caller, n, refunding, balance) ==
    LET tx == recover_loop(Begin, n, begin(recovering), refunding, balance)
    IN  IF tx.recovering # recovering THEN tx
        ELSE abort(tx, "No accounts to recover")

recover(caller, n, refunding, balance) ==
    LET tx == recover_loop(Begin, n, begin(recovering), refunding, balance)
    IN  IF tx.i > 0 THEN tx
        ELSE abort(tx, "No accounts to recover")

\* ------------------------------------------------------------ history
RECURSIVE Ascending(_)
Ascending(S) == IF S = {} THEN <<>> ELSE <<Min(S)>> \o Ascending(S \ {Min(S)})

\* the insertion order of a table after a transaction that left it as
\* `table` and inserted the rows of `inserted`, in that order
Admit(order, table, inserted) ==
    LET kept == SelectSeq(order, LAMBDA x : x \in table)
    IN  kept \o SelectSeq(inserted, LAMBDA x : x \in table /\ x \notin Range(kept))

HasRepeat(s) == \E j, k \in 1..Len(s) : j # k /\ s[j] = s[k]

\* What a specification records besides the contract's state: `h` is the
\* set of histories it keeps, the others stay as Init left them.  `op` is
\* the action that ran, `passed` the list a committed add was given,
\* `withStake` those of them that had a delband row,
\* `removed` the accounts a committed remove or removeme was given and
\* `inserted` the rows inserted, in the order of insertion.  The stages
\* are recorded only as long as no account has been passed to add twice.
Observe(h, op, passed, withStake, removed, inserted) ==
    /\ added' = IF "admission" \in h THEN added \cup Range(passed) ELSE added
    /\ dup' = IF "admission" \in h
              THEN (dup \/ HasRepeat(passed) \/ Range(passed) \cap added # {})
              ELSE dup
    /\ immune' = IF "immunity" \in h /\ op = "removeme" THEN immune \cup removed ELSE immune
    /\ uAdmit' = IF "order" \in h THEN Admit(uAdmit, unstaking', inserted) ELSE uAdmit
    /\ rAdmit' = IF "order" \in h THEN Admit(rAdmit, recovering', inserted) ELSE rAdmit
    /\ waiting' = IF "stage" \notin h THEN waiting
                  ELSE IF dup' THEN {}
                  ELSE IF op = "add" THEN waiting \cup withStake
                  ELSE IF op = "unstake" THEN waiting \ (unstaking \ unstaking')
                  ELSE waiting
    /\ swept' = IF "stage" \notin h THEN swept
                ELSE IF dup' THEN {}
                ELSE IF op = "recover" THEN swept \cup (recovering \ recovering')
                ELSE swept
    /\ blocked' = IF "corner" \in h
                  THEN (blocked \cup (unstaking' \cap recovering')) \ removed
                  ELSE blocked
    /\ UNCHANGED ledger

\* ------------------------------------------------------------ the actions
ok(tx) == tx.status = "ok"

\* What a transaction leaves behind: committed, its table writes and its
\* inline actions; aborted, the tables as they were and no action.
Outcome(tx) ==
    [unstaking |-> IF ok(tx) THEN tx.unstaking ELSE unstaking,
     recovering |-> IF ok(tx) THEN tx.recovering ELSE recovering,
     sent |-> IF ok(tx) THEN tx.actions ELSE <<>>,
     status |-> tx.status,
     i |-> IF ok(tx) THEN tx.i ELSE 0]

Targets(actions) == {actions[k].from : k \in 1..Len(actions)}

Commit(op, tx) ==
    LET o == Outcome(tx)
    IN  /\ unstaking' = o.unstaking
        /\ recovering' = o.recovering
        /\ sent' = o.sent
        /\ result' = [op |-> op, status |-> o.status, i |-> o.i]

Add(h, caller, account_names, staked) ==
    LET tx == add(caller, account_names, staked)
    IN  /\ Commit("add", tx)
        /\ Observe(h, "add", IF ok(tx) THEN account_names ELSE <<>>,
                   IF ok(tx) THEN DOMAIN staked ELSE {}, {},
                   IF ok(tx) THEN account_names ELSE <<>>)

Remove(h, caller, account_names) ==
    LET tx == remove(caller, account_names)
    IN  /\ Commit("remove", tx)
        /\ Observe(h, "remove", <<>>, {}, IF ok(tx) THEN Range(account_names) ELSE {}, <<>>)

RemoveMe(h, caller, account_name) ==
    LET tx == removeme(caller, account_name)
    IN  /\ Commit("removeme", tx)
        /\ Observe(h, "removeme", <<>>, {}, IF ok(tx) THEN {account_name} ELSE {}, <<>>)

Unstake(h, caller, n, staked) ==
    LET tx == unstake(caller, n, staked)
    IN  /\ Commit("unstake", tx)
        /\ Observe(h, "unstake", <<>>, {}, {},
                   IF ok(tx) THEN Ascending(unstaking \ tx.unstaking) ELSE <<>>)

Recover(h, caller, n, refunding, balance) ==
    /\ Commit("recover", recover(caller, n, refunding, balance))
    /\ Observe(h, "recover", <<>>, {}, {}, <<>>)

Init ==
    /\ unstaking = {}
    /\ recovering = {}
    /\ sent = <<>>
    /\ result = [op |-> "deploy", status |-> "ok", i |-> 0]
    /\ added = {}
    /\ dup = FALSE
    /\ immune = {}
    /\ uAdmit = <<>>
    /\ rAdmit = <<>>
    /\ waiting = {}
    /\ swept = {}
    /\ blocked = {}
    /\ pending = {}
    /\ closed = FALSE

\* The external tables an action reads: add looks only at whether a delband
\* row exists; unstake reads the rows of accounts in "unstake"; recover reads
\* the refund rows of accounts in "recover" and the balance of those that
\* have none.
Step(h) ==
    \/ \E caller \in Callers, account_names \in NameLists :
         \E staked \in StakedTables(Range(account_names), {AnyRow}) :
            Add(h, caller, account_names, staked)
    \/ \E caller \in Callers, account_names \in NameLists :
            Remove(h, caller, account_names)
    \/ \E caller \in Callers, account_name \in Names :
            RemoveMe(h, caller, account_name)
    \/ \E caller \in Callers, n \in Counts :
         \E staked \in StakedTables(unstaking, StakeRows) :
            Unstake(h, caller, n, staked)
    \/ \E caller \in Callers, n \in Counts :
         \E refunding \in RefundTables(recovering) :
           \E balance \in BalanceTables(recovering \ refunding) :
            Recover(h, caller, n, refunding, balance)

Next == Step({})
NextAdmission == Step({"admission"})
NextImmunity == Step({"immunity"})
NextOrder == Step({"order"})
NextStage == Step({"admission", "stage"})
NextCorner == Step({"corner"})

\* the contract alone
Spec == Init /\ [][Next]_vars
\* the contract, recording which accounts were passed to add
SpecAdmission == Init /\ [][NextAdmission]_vars
\* the contract, recording whose removeme has committed
SpecImmunity == Init /\ [][NextImmunity]_vars
\* the contract, recording the order in which rows were inserted
SpecOrder == Init /\ [][NextOrder]_vars
\* the contract, recording admission and the stage each account has reached
SpecStage == Init /\ [][NextStage]_vars
\* the contract, recording which accounts have been in both tables
SpecCorner == Init /\ [][NextCorner]_vars

\* ------------------------------------------------- the contract in service
\* The refund rows are kept from one transaction to the next: undelegatebw
\* opens a refund request for its account, and the ledger clears the request
\* when it has matured.  From some moment on add is not called any more.
AddWhileOpen(account_names, staked) ==
    /\ ~closed
    /\ Commit("add", add(Self, account_names, staked))
    /\ UNCHANGED <<history, ledger>>

Close ==
    /\ ~closed
    /\ closed' = TRUE
    /\ UNCHANGED <<tables, sent, result, history, pending>>

RemoveListed(account_names) ==
    /\ Commit("remove", remove(Self, account_names))
    /\ UNCHANGED <<history, ledger>>

RemoveOwn(account_name) ==
    /\ Commit("removeme", removeme(account_name, account_name))
    /\ UNCHANGED <<history, ledger>>

UnstakeBatch(n, staked) ==
    LET o == Outcome(unstake(Self, n, staked))
    IN  /\ Commit("unstake", unstake(Self, n, staked))
        /\ pending' = pending \cup Targets(o.sent)
        /\ UNCHANGED <<history, closed>>

RecoverBatch(n, balance) ==
    /\ Commit("recover", recover(Self, n, pending \cap recovering, balance))
    /\ UNCHANGED <<history, ledger>>

Mature(account) ==
    /\ account \in pending
    /\ pending' = pending \ {account}
    /\ UNCHANGED <<tables, sent, result, history, closed>>

UnstakeSome(n) ==
    \E staked \in StakedTables(unstaking, {AnyRow}) : UnstakeBatch(n, staked)

RecoverSome(n) ==
    \E balance \in BalanceTables(recovering \ pending) : RecoverBatch(n, balance)

UnstakeAny == \E n \in Counts \ {0} : UnstakeSome(n)

\* ENABLED <<UnstakeSome(n)>>_vars: a call of unstake(n) would change the state
UnstakeWouldAct(n) ==
    \E staked \in StakedTables(unstaking, {AnyRow}) :
        LET o == Outcome(unstake(Self, n, staked))
        IN  <<o.unstaking, o.recovering, o.sent,
              [op |-> "unstake", status |-> o.status, i |-> o.i],
              pending \cup Targets(o.sent)>>
              # <<unstaking, recovering, sent, result, pending>>

\* ENABLED <<RecoverSome(n)>>_vars: a call of recover(n) would change the state
RecoverWouldAct(n) ==
    \E balance \in BalanceTables(recovering \ pending) :
        LET o == Outcome(recover(Self, n, pending \cap recovering, balance))
        IN  <<o.unstaking, o.recovering, o.sent,
              [op |-> "recover", status |-> o.status, i |-> o.i]>>
              # <<unstaking, recovering, sent, result>>

\* WF_vars(UnstakeAny), with ENABLED written as the state predicate it is:
\* unstake keeps being called as long as a call would change the state
UnstakeKeepsRunning ==
    \/ []<>(\A n \in Counts \ {0} : ~UnstakeWouldAct(n))
    \/ []<><<UnstakeAny>>_vars

\* WF_vars(RecoverSome(n)) in the same way: recover(n) keeps being called
\* with this one n
RecoverKeepsRunning(n) ==
    \/ []<>(~RecoverWouldAct(n))
    \/ []<><<RecoverSome(n)>>_vars

NextLive ==
    \/ \E account_names \in NameLists :
         \E staked \in StakedTables(Range(account_names), {AnyRow}) :
            AddWhileOpen(account_names, staked)
    \/ Close
    \/ \E account_names \in NameLists : RemoveListed(account_names)
    \/ \E account_name \in Names : RemoveOwn(account_name)
    \/ UnstakeAny
    \/ \E n \in Counts \ {0} : RecoverSome(n)
    \/ \E account \in Names : Mature(account)

\* the contract in service: unstake keeps being called and every refund
\* request matures; how often recover is called is left open
SpecLive ==
    /\ Init
    /\ [][NextLive]_vars
    /\ UnstakeKeepsRunning
    /\ \A account \in Names : WF_vars(Mature(account))

\* ================================================================ claims
\* Helpers of the statements below.
\* the m rows of a table that iteration reaches first
First(table, m) == {x \in table : Cardinality({y \in table : y < x}) < m}

Unchanged(o) == o.unstaking = unstaking /\ o.recovering = recovering /\ o.sent = <<>>

ActionsFor(actions, account) == {k \in 1..Len(actions) : actions[k].from = account}

\* ---------------------------------------------------------------- C1
\* C1: as long as no account has been passed to add more than once, no
\* account is in both the unstake table and the recover table.
ExclusiveUnderCleanAdmission ==
    ~dup => unstaking \cap recovering = {}

\* a clean run in which unstake has moved one account and left another
CleanBothQueuesInUse ==
    /\ ~dup
    /\ result.op = "unstake" /\ result.status = "ok"
    /\ unstaking # {} /\ recovering # {}

\* ---------------------------------------------------------------- C2
\* C2: add and remove authorized by anyone but the contract itself abort
\* with missing authority, change no table and send no action; no action
\* authorized by anyone but the contract brings a new account into the tables.
UnauthorizedAddRemoveRejected ==
    \A caller \in Callers \ {Self} :
        /\ \A account_names \in NameLists :
             /\ \A staked \in StakedTables(Range(account_names), {AnyRow}) :
                  LET o == Outcome(add(caller, account_names, staked))
                  IN  o.status = "missing_auth" /\ Unchanged(o)
             /\ LET o == Outcome(remove(caller, account_names))
                IN  o.status = "missing_auth" /\ Unchanged(o)
        /\ \A account_name \in Names :
             LET o == Outcome(removeme(caller, account_name))
             IN  o.unstaking \cup o.recovering \subseteq unstaking \cup recovering
        /\ \A n \in Counts :
             /\ \A staked \in StakedTables(unstaking, StakeRows) :
                  LET o == Outcome(unstake(caller, n, staked))
                  IN  o.unstaking \cup o.recovering \subseteq unstaking \cup recovering
             /\ \A refunding \in RefundTables(recovering) :
                  \A balance \in BalanceTables(recovering \ refunding) :
                     LET o == Outcome(recover(caller, n, refunding, balance))
                     IN  o.unstaking \cup o.recovering \subseteq unstaking \cup recovering

\* a remove was rejected for missing authority while accounts were listed
RemoveRejectedOnFilledTables ==
    /\ result.op = "remove" /\ result.status = "missing_auth"
    /\ unstaking # {} /\ recovering # {}
    /\ sent = <<>>

\* ---------------------------------------------------------------- C3
\* C3: removeme(A) authorized by A commits in every reachable state, leaves
\* A in neither table and every other account where it was; authorized by
\* anyone else it aborts and changes nothing.
SelfRemovalAlwaysWorks ==
    \A account_name \in Names, caller \in Callers :
        LET o == Outcome(removeme(caller, account_name))
        IN  IF caller = account_name
            THEN /\ o.status = "ok"
                 /\ o.unstaking = unstaking \ {account_name}
                 /\ o.recovering = recovering \ {account_name}
                 /\ o.sent = <<>>
            ELSE o.status = "missing_auth" /\ Unchanged(o)

\* a removeme has committed while another account stayed listed
SelfRemovedOthersStay ==
    /\ result.op = "removeme" /\ result.status = "ok"
    /\ unstaking \cup recovering # {}

\* ---------------------------------------------------------------- C4
\* C4: once removeme(A) has committed, no later unstake or recover sends an
\* undelegatebw, refund or transfer for A.
ImmuneAfterRemoveMe ==
    \A account \in immune : account \notin Targets(sent)

\* ---------------------------------------------------------------- C5
\* C5: unstake(n) and recover(n) do not depend on who authorizes them: from
\* the same tables and the same external tables, any two callers get the
\* same outcome, the same resulting tables and the same inline actions.
CallerIrrelevant ==
    \A n \in Counts :
        /\ \A staked \in StakedTables(unstaking, StakeRows) :
             \A c1 \in Callers :
                LET o1 == Outcome(unstake(c1, n, staked))
                IN  \A c2 \in Callers : Outcome(unstake(c2, n, staked)) = o1
        /\ \A refunding \in RefundTables(recovering) :
             \A balance \in BalanceTables(recovering \ refunding) :
                \A c1 \in Callers :
                   LET o1 == Outcome(recover(c1, n, refunding, balance))
                   IN  \A c2 \in Callers : Outcome(recover(c2, n, refunding, balance)) = o1

\* an unstake has committed and sent an inline action
UnstakeCommitted ==
    /\ result.op = "unstake" /\ result.status = "ok"
    /\ Len(sent) > 0 /\ recovering # {}

\* ---------------------------------------------------------------- C6
\* C6 as claimed: with k rows in "unstake", unstake(n) moves exactly n rows
\* when k >= n, all k rows (and succeeds) when 0 < k < n, and fails with
\* "No accounts to unstake" changing nothing when k = 0; the rows moved are
\* the first min(n, k).
UnstakeMovesExactlyN ==
    \A n \in Counts, staked \in StakedTables(unstaking, StakeRows) :
        LET o == Outcome(unstake(Self, n, staked))
            k == Cardinality(unstaking)
            F == First(unstaking, Minimum(n, k))
        IN  /\ k >= n => /\ Cardinality(unstaking \ o.unstaking) = n
                         /\ o.unstaking \subseteq unstaking
                         /\ Cardinality(o.recovering \ recovering) = n
                         /\ recovering \subseteq o.recovering
            /\ (0 < k /\ k < n) => /\ o.status = "ok"
                                   /\ o.unstaking = {}
                                   /\ unstaking \subseteq o.recovering
            /\ k = 0 => o.status = "No accounts to unstake" /\ Unchanged(o)
            /\ unstaking \ o.unstaking = F

\* C6 as amended: the same, provided none of the first min(n, k) rows is
\* already in "recover"; if one is, unstake(n) aborts on the duplicate key
\* and changes neither table.
UnstakeMovesFirstEntries ==
    \A n \in Counts, staked \in StakedTables(unstaking, StakeRows) :
        LET o == Outcome(unstake(Self, n, staked))
            k == Cardinality(unstaking)
            F == First(unstaking, Minimum(n, k))
        IN  IF F \cap recovering # {}
            THEN o.status = "duplicate_key" /\ Unchanged(o)
            ELSE /\ k >= n => /\ Cardinality(unstaking \ o.unstaking) = n
                              /\ o.unstaking \subseteq unstaking
                              /\ Cardinality(o.recovering \ recovering) = n
                              /\ recovering \subseteq o.recovering
                 /\ (0 < k /\ k < n) => /\ o.status = "ok"
                                        /\ o.unstaking = {}
                                        /\ unstaking \subseteq o.recovering
                 /\ k = 0 => o.status = "No accounts to unstake" /\ Unchanged(o)
                 /\ unstaking \ o.unstaking = F
                 /\ o.recovering \ recovering = F

\* unstake(1) has moved one row and left the rest
UnstakeMovedPartOfQueue ==
    /\ result.op = "unstake" /\ result.status = "ok" /\ result.i = 1
    /\ unstaking # {} /\ recovering # {}

\* ---------------------------------------------------------------- C7
\* C7 as claimed: unstake(n) with n >= 1 fails only when "unstake" is empty.
UnstakeFailsOnlyWhenEmpty ==
    \A n \in Counts \ {0}, staked \in StakedTables(unstaking, StakeRows) :
        Outcome(unstake(Self, n, staked)).status # "ok" => unstaking = {}

\* C7 as amended: unstake(n) fails exactly when n = 0 or "unstake" is empty
\* ("No accounts to unstake") or one of the first min(n, k) rows is already
\* in "recover" (duplicate key); a failure commits nothing, not even the
\* rows ahead of the duplicate; otherwise all min(n, k) rows are committed.
UnstakeFailsExactlyWhen ==
    \A n \in Counts, staked \in StakedTables(unstaking, StakeRows) :
        LET o == Outcome(unstake(Self, n, staked))
            m == Minimum(n, Cardinality(unstaking))
            F == First(unstaking, m)
        IN  /\ o.status # "ok" <=> (n = 0 \/ unstaking = {} \/ F \cap recovering # {})
            /\ o.status \in {"ok", "duplicate_key", "No accounts to unstake"}
            /\ o.status = "duplicate_key" <=> F \cap recovering # {}
            /\ o.status # "ok" => Unchanged(o)
            /\ o.status = "ok" => o.i = m /\ Cardinality(unstaking \ o.unstaking) = m

\* an unstake aborted on a duplicate key although "unstake" was not empty
UnstakeAbortedOnDuplicate ==
    /\ result.op = "unstake" /\ result.status = "duplicate_key"
    /\ unstaking # {}

\* ---------------------------------------------------------------- C8
\* C8 as claimed: the row inserted earliest is always the front of its table.
FrontIsEarliestAdmitted ==
    /\ unstaking # {} => begin(unstaking) = Head(uAdmit)
    /\ recovering # {} => begin(recovering) = Head(rAdmit)

\* C8 as amended: batches go in ascending order of the account name value,
\* whatever the order of insertion: a batch never processes Y unless it has
\* processed every row of the table with a smaller name value than Y.
BatchesFollowKeyOrder ==
    \A n \in Counts :
        /\ \A staked \in StakedTables(unstaking, StakeRows) :
             LET o == Outcome(unstake(Self, n, staked))
                 P == unstaking \ o.unstaking
             IN  \A x \in unstaking, y \in P : x < y => x \in P
        /\ \A refunding \in RefundTables(recovering) :
             \A balance \in BalanceTables(recovering \ refunding) :
                LET o == Outcome(recover(Self, n, refunding, balance))
                    V == (recovering \ o.recovering) \cup Targets(o.sent)
                IN  \A x \in recovering, y \in V : x < y => x \in V

\* recover(1) visited (sent a refund for) a row while the row inserted
\* before it, with a larger name value, was left waiting
LaterAdmittedVisitedFirst ==
    /\ result.op = "recover" /\ result.status = "ok" /\ result.i = 1
    /\ Len(sent) = 1 /\ sent[1].act = "refund"
    /\ Len(rAdmit) = 2 /\ rAdmit[2] = sent[1].from /\ rAdmit[1] > rAdmit[2]

\* ---------------------------------------------------------------- C9
\* C9: for every row a committed unstake processes: an undelegatebw is sent
\* exactly when the account has a delband row at that moment, it is the only
\* one for that account, it returns the row's net and cpu weights from the
\* account to the account itself; with or without stake the row is inserted
\* into "recover" and erased from "unstake".
UndelegateIffStaked ==
    \A n \in Counts, staked \in StakedTables(unstaking, StakeRows) :
        LET o == Outcome(unstake(Self, n, staked))
            P == First(unstaking, o.i)
        IN  o.status = "ok" =>
              /\ Targets(o.sent) \subseteq P
              /\ \A a \in P :
                   /\ a \in o.recovering /\ a \notin o.unstaking
                   /\ Cardinality(ActionsFor(o.sent, a)) = IF has_row(staked, a) THEN 1 ELSE 0
                   /\ \A k \in ActionsFor(o.sent, a) :
                        o.sent[k] = [act |-> "undelegatebw", auth |-> a, from |-> a, to |-> a,
                                     net |-> staked[a].net_weight,
                                     cpu |-> staked[a].cpu_weight, quantity |-> 0]

\* an unstake moved two rows, one with stake and one without
UnstakedOneOfTwo ==
    /\ result.op = "unstake" /\ result.status = "ok" /\ result.i = 2
    /\ Len(sent) = 1 /\ sent[1].act = "undelegatebw"
    /\ sent[1].from \in recovering

TransferIffBalance ==
    \A n \in Counts, refunding \in RefundTables(recovering) :
        \A balance \in BalanceTables(recovering \ refunding) :
            LET o == Outcome(recover(Self, n, refunding, balance))
                V == First(recovering, o.i)
            IN  o.status = "ok" =>
                  /\ Targets(o.sent) \subseteq V
                  /\ \A a \in V \ refunding :
                       /\ a \notin o.recovering
                       /\ Cardinality(ActionsFor(o.sent, a)) = IF balance[a] > 0 THEN 1 ELSE 0
                       /\ \A k \in ActionsFor(o.sent, a) :
                            o.sent[k] = [act |-> "transfer", auth |-> a, from |-> a,
                                         to |-> Self, net |-> 0, cpu |-> 0,
                                         quantity |-> balance[a]]
                  /\ \A a \in V \cap refunding :
                       \A k \in ActionsFor(o.sent, a) : o.sent[k].act # "transfer"

\* a recover erased two rows, one with a balance and one without
SweptOneOfTwo ==
    /\ result.op = "recover" /\ result.status = "ok" /\ result.i = 2
    /\ Len(sent) = 1 /\ sent[1].act = "transfer" /\ sent[1].quantity > 0
    /\ recovering = {}

\* ---------------------------------------------------------------- C13
\* C13: a committed add puts each listed account that has a delband row
\* into "unstake" and each listed account that has none into "recover",
\* leaves the other table as it was for that account, leaves unlisted
\* accounts where they were, and sends no inline action.
AddRoutesByStake ==
    \A account_names \in NameLists :
        \A staked \in StakedTables(Range(account_names), {AnyRow}) :
            LET o == Outcome(add(Self, account_names, staked))
                U == {a \in Range(account_names) : has_row(staked, a)}
                R == Range(account_names) \ U
            IN  /\ o.sent = <<>>
                /\ o.status = "ok" =>
                     /\ o.unstaking = unstaking \cup U
                     /\ o.recovering = recovering \cup R
                     /\ U \cap unstaking = {}
                     /\ R \cap recovering = {}

\* one add has put an account into each table
AddedToBothTables ==
    /\ result.op = "add" /\ result.status = "ok"
    /\ unstaking # {} /\ recovering # {} /\ unstaking \cap recovering = {}

\* ---------------------------------------------------------------- C14
\* C14: add aborts with a duplicate key exactly when a listed account is
\* already in the table it is routed to or is listed twice; the abort undoes
\* the whole action: no listed account is inserted, also none of those ahead
\* of the duplicate.
AddDuplicateAbortsAll ==
    \A account_names \in NameLists :
        \A staked \in StakedTables(Range(account_names), {AnyRow}) :
            LET o == Outcome(add(Self, account_names, staked))
                clash == \/ HasRepeat(account_names)
                         \/ \E a \in Range(account_names) :
                               IF has_row(staked, a) THEN a \in unstaking ELSE a \in recovering
            IN  /\ clash <=> o.status = "duplicate_key"
                /\ clash => Unchanged(o)
                /\ ~clash => o.status = "ok"

\* an add aborted on a duplicate key while an account was listed
AddAbortedOnDuplicate ==
    /\ result.op = "add" /\ result.status = "duplicate_key"
    /\ unstaking \cup recovering # {}

\* ---------------------------------------------------------------- C15
\* C15: remove by the contract never fails, leaves every listed account in
\* neither table and every unlisted account where it was, sends nothing,
\* and a second remove of the same list right after changes nothing more.
RemoveIdempotent ==
    \A account_names \in NameLists :
        LET o == Outcome(remove(Self, account_names))
            again == remove_loop([Begin EXCEPT !.unstaking = o.unstaking,
                                               !.recovering = o.recovering],
                                 account_names, 1)
        IN  /\ o.status = "ok"
            /\ o.unstaking = unstaking \ Range(account_names)
            /\ o.recovering = recovering \ Range(account_names)
            /\ o.sent = <<>>
            /\ again.status = "ok"
            /\ again.unstaking = o.unstaking
            /\ again.recovering = o.recovering
            /\ again.actions = <<>>

\* a remove has committed and left other accounts listed
RemovedSomeKeptOthers ==
    /\ result.op = "remove" /\ result.status = "ok"
    /\ unstaking \cup recovering # {}

StagesInOrder ==
    ~dup =>
      \A n \in Counts :
        /\ \A staked \in StakedTables(unstaking, StakeRows) :
             LET o == Outcome(unstake(Self, n, staked))
             IN  \A k \in 1..Len(o.sent) :
                    /\ o.sent[k].from \notin swept
                    /\ o.sent[k].from \in waiting => o.sent[k].act = "undelegatebw"
        /\ \A refunding \in RefundTables(recovering) :
             \A balance \in BalanceTables(recovering \ refunding) :
                LET o == Outcome(recover(Self, n, refunding, balance))
                IN  \A k \in 1..Len(o.sent) :
                       /\ o.sent[k].from \notin swept
                       /\ o.sent[k].from \notin waiting

\* a clean run in which one account has been swept while another, added
\* with stake, still waits for unstake
OneSweptOneWaiting ==
    /\ ~dup
    /\ result.op = "recover" /\ result.status = "ok" /\ Len(sent) > 0
    /\ swept # {} /\ waiting \cap unstaking # {}

\* ---------------------------------------------------------------- C20
\* C20: every undelegatebw is for an account that was in "unstake" when the
\* action started, every refund and transfer for an account that was in
\* "recover" when the action started, every transfer goes to the contract
\* itself, and add, remove and removeme send no inline action.
ActionsOnlyForListed ==
    /\ \A n \in Counts :
         /\ \A staked \in StakedTables(unstaking, StakeRows) :
              LET o == Outcome(unstake(Self, n, staked))
              IN  \A k \in 1..Len(o.sent) :
                     o.sent[k].act = "undelegatebw" /\ o.sent[k].from \in unstaking
         /\ \A refunding \in RefundTables(recovering) :
              \A balance \in BalanceTables(recovering \ refunding) :
                 LET o == Outcome(recover(Self, n, refunding, balance))
                 IN  \A k \in 1..Len(o.sent) :
                        /\ o.sent[k].act \in {"refund", "transfer"}
                        /\ o.sent[k].from \in recovering
                        /\ o.sent[k].act = "transfer" => o.sent[k].to = Self
    /\ \A caller \in Callers :
         /\ \A account_names \in NameLists :
              Outcome(remove(caller, account_names)).sent = <<>>
         /\ \A account_name \in Names :
              Outcome(removeme(caller, account_name)).sent = <<>>

\* an unstake sent an undelegatebw for each of two rows it moved
UndelegatedTwo ==
    /\ result.op = "unstake" /\ result.status = "ok"
    /\ Len(sent) = 2 /\ sent[1].act = "undelegatebw" /\ sent[2].act = "undelegatebw"
    /\ {sent[1].from, sent[2].from} \subseteq recovering

\* ---------------------------------------------------------------- C16
\* once add is not called any more, every account in "recover" leaves it
RecoverDrains ==
    \A a \in Names : (closed /\ a \in recovering) ~> (a \notin recovering)

\* C16 as claimed: once add is not called any more and every refund
\* request matures: if recover(n) keeps being called with one n >= 1, every
\* account in "recover" eventually leaves it; and if unstake keeps being
\* called, every account in "unstake" eventually leaves it.
ProcessingIsFair ==
    /\ \A n \in Counts \ {0} : RecoverKeepsRunning(n) => RecoverDrains
    /\ \A a \in Names : (closed /\ a \in unstaking) ~> (a \notin unstaking)

\* C16 as amended: the part on "recover" as claimed; unstake alone moves
\* every account of "unstake" if no account is in both tables, and it moves
\* every account in any case if recover keeps being called as well.
ProcessingIsFairWithRecover ==
    /\ \A n \in Counts \ {0} : RecoverKeepsRunning(n) => RecoverDrains
    /\ \A a \in Names :
         (closed /\ a \in unstaking /\ unstaking \cap recovering = {})
            ~> (a \notin unstaking)
    /\ \A n \in Counts \ {0} :
         RecoverKeepsRunning(n) =>
            \A a \in Names : (closed /\ a \in unstaking) ~> (a \notin unstaking)

\* after the last add, recover has erased the last row, one that it had to
\* skip before
DrainedAfterSkip ==
    /\ closed
    /\ result.op = "recover" /\ result.status = "ok"
    /\ recovering = {} /\ unstaking = {}
    /\ Len(sent) = 1 /\ sent[1].act = "transfer"

====
